---- MODULE Spec2Model ----
(***************************************************************************)
(* A model of the python package `cluster`:                                *)
(*   cluster/io.py            read_associations                            *)
(*   cluster/plot/cutouts.py  single_cutout, multi_cutout,                 *)
(*                            multi_page_cutout, plot_cluster_nebulae      *)
(* Every function is a sequence of steps over the variables below; one     *)
(* call runs at a time (the code is single threaded).  The inputs of a     *)
(* call (arguments, directory listings, file contents) are drawn from      *)
(* small sets when the code reads them.                                    *)
(***************************************************************************)
EXTENDS Integers, Sequences, FiniteSets, TLC

VARIABLES
    call,               \* the function that runs ("none" before a call)
    pc,                 \* position in the running function ("idle" before a call)
    raised,             \* the exception that ended the call, "none" otherwise
    stdout,             \* what the call has printed, in order
    result,             \* the value returned by the call, None before
    \* ---- read_associations
    target, scalepc, data,      \* arguments
    fs,                         \* the directory the call examined last
    opened,                     \* the FITS files opened so far, in order
    source,                     \* the contents read from the files
    associations,               \* local: the catalogue table
    associations_mask,          \* local: the mask NDData
    \* ---- the plotting functions
    args,               \* the arguments of the call
    locals,             \* the local variables of the call
    fig,                \* the axes of the current figure, row by row
    written             \* the output file: its suffix, its pages, whether it is open

io_vars == <<target, scalepc, data, fs, opened, source, associations, associations_mask>>
plot_vars == <<args, locals, fig, written>>
vars == <<call, pc, raised, stdout, result, io_vars, plot_vars>>

None == <<>>                \* an unbound name, or no value
\* not-a-number: a value of its own, written as a number no pixel carries;
\* float_eq gives it the comparison a float NaN has
NaN == 0 - 999

(***************************************************************************)
(* Bounds of the model.                                                    *)
(***************************************************************************)
MaxExtraCols == 3       \* flux-density columns of a source table
MaskPixels == 2         \* pixels of a mask image

(***************************************************************************)
(* Python strings and the library calls the code makes on them.            *)
(***************************************************************************)
Max(S) == CHOOSE m \in S : \A k \in S : k <= m
Min(S) == CHOOSE m \in S : \A k \in S : m <= k

CharAt(s, k) == SubSeq(s, k, k)

\* str.endswith
endswith(s, suffix) ==
    /\ Len(s) >= Len(suffix)
    /\ SubSeq(s, Len(s) - Len(suffix) + 1, Len(s)) = suffix

\* str.rfind / str.find as 1-based positions, 0 when the character is absent
rfind(s, c) ==
    LET I == {k \in 1..Len(s) : CharAt(s, k) = c}
    IN  IF I = {} THEN 0 ELSE Max(I)

find(s, c) ==
    LET I == {k \in 1..Len(s) : CharAt(s, k) = c}
    IN  IF I = {} THEN 0 ELSE Min(I)

\* pathlib's PurePath.stem: the name without its last suffix; a leading or a
\* trailing dot starts no suffix
stem(name) ==
    LET k == rfind(name, ".")
    IN  IF 1 < k /\ k < Len(name) THEN SubSeq(name, 1, k - 1) ELSE name

\* col.split("_")[0]
split0(s) ==
    LET k == find(s, "_")
    IN  IF k = 0 THEN s ELSE SubSeq(s, 1, k - 1)

Digits == <<"0", "1", "2", "3", "4", "5", "6", "7", "8", "9">>
IsDigit(c) == \E d \in 1..10 : Digits[d] = c
DigitVal(c) == (CHOOSE d \in 1..10 : Digits[d] = c) - 1

\* int(str): an optional sign and decimal digits; anything else is a ValueError
IsIntLiteral(s) ==
    LET body == IF Len(s) > 0 /\ CharAt(s, 1) \in {"+", "-"} THEN Tail(s) ELSE s
    IN  /\ Len(body) > 0
        /\ \A k \in 1..Len(body) : IsDigit(CharAt(body, k))

RECURSIVE DigitsVal(_)
DigitsVal(s) ==
    IF Len(s) = 0 THEN 0
    ELSE 10 * DigitsVal(SubSeq(s, 1, Len(s) - 1)) + DigitVal(CharAt(s, Len(s)))

int(s) ==
    IF CharAt(s, 1) = "-" THEN 0 - DigitsVal(Tail(s))
    ELSE IF CharAt(s, 1) = "+" THEN DigitsVal(Tail(s))
    ELSE DigitsVal(s)

\* str(n) of a non-negative integer, as the f-string formats scalepc
RECURSIVE str(_)
str(n) == IF n < 10 THEN Digits[n + 1] ELSE str(n \div 10) \o Digits[(n % 10) + 1]

(***************************************************************************)
(* cluster/io.py: read_associations                                        *)
(***************************************************************************)
HSTband == "nuv"        \* default of the parameter
version == "v1p1"       \* default of the parameter

\* what the calls of the model pass
TargetArgs == {"NGC628", "IC5332", "NGC628.bak"}
ScaleArgs == {16, 32, 64}
DataArgs == {"all", "catalogue", "mask", "table"}

\* names that may exist under 'multi-scale stellar associations' and under
\* '{target}_{HSTband}_tracerstars'
RootNames == {"NGC628", "IC5332", "NGC628.bak", "readme.txt"}
ScaleNames == {"16pc", "32pc", "64pc.zip", "oldpc"}

\* A path as the call finds it: missing, a regular file, or a directory with
\* entries (name -> "dir" or "file").
Directories(path, names) ==
    {[path |-> path, kind |-> "missing", entries |-> <<>>],
     [path |-> path, kind |-> "file", entries |-> <<>>]}
    \cup {[path |-> path, kind |-> "dir", entries |-> e] :
            e \in UNION {[S -> {"dir", "file"}] : S \in SUBSET names}}

\* (path/name).is_dir()
is_dir(d, name) ==
    /\ d.kind = "dir"
    /\ name \in DOMAIN d.entries
    /\ d.entries[name] = "dir"

\* what path.iterdir() raises instead of listing
iterdir_error(d) ==
    IF d.kind = "missing" THEN "FileNotFoundError" ELSE "NotADirectoryError"

\* variant: x.name in place of x.stem
target_listing_names(d) == [x \in DOMAIN d.entries |-> x]

\* line 36: [x.stem for x in folder.iterdir()], one item per entry
target_listing(d) == [x \in DOMAIN d.entries |-> stem(x)]

\* line 41: the entries whose stem ends in 'pc'
pc_entries(d) == {x \in DOMAIN d.entries : endswith(stem(x), "pc")}

\* x.stem[:-2]
scale_text(x) == SubSeq(stem(x), 1, Len(stem(x)) - 2)

\* line 41: [int(x.stem[:-2]) for x in ... if x.stem.endswith('pc')]
scale_listing(d) == [x \in pc_entries(d) |-> int(scale_text(x))]

scale_dir(n) == str(n) \o "pc"

catalogue_file ==
    target \o "_phangshst_associations_" \o HSTband \o "_ws" \o str(scalepc)
           \o "pc_" \o version \o ".fits"

mask_file ==
    target \o "_phangshst_associations_" \o HSTband \o "_ws" \o str(scalepc)
           \o "pc_idmask_" \o version \o ".fits"

\* variant: the catalogue is read whatever the known selector
wants_catalogue_any(d) == d = "all" \/ d = "catalogue" \/ d = "mask"

\* line 45 and line 68
wants_catalogue(d) == d = "all" \/ d = "catalogue"
wants_mask(d) == d = "all" \/ d = "mask"

\* ---- the catalogue table: a sequence of columns, each a name and a value.
\* Values are kept symbolically: a column of the file, the SkyCoord built from
\* two columns, or a flux computed from the value of a column.
RegCols ==
    <<"reg_id", "reg_ra", "reg_dec", "reg_x", "reg_y",
      "reg_dolflux_Age_MinChiSq", "reg_dolflux_Mass_MinChiSq", "reg_dolflux_Ebv_MinChiSq",
      "reg_dolflux_Age_MinChiSq_err", "reg_dolflux_Mass_MinChiSq_err",
      "reg_dolflux_Ebv_MinChiSq_err">>

NewCols ==
    <<"assoc_ID", "RA", "DEC", "X", "Y", "age", "mass", "EBV",
      "age_err", "mass_err", "EBV_err">>

\* flux-density columns a source table may carry beside the reg_* columns
ExtraCols ==
    <<"NUV_dolflux_mjy", "NUV_dolflux_mjy_err", "NUV_iso_mjy", "V_mjy", "mjy_err">>

RECURSIVE Pick(_, _)
\* the subsequence of seq at the positions in S
Pick(seq, S) ==
    IF S = {} THEN <<>>
    ELSE Append(Pick(seq, S \ {Max(S)}), seq[Max(S)])

SourceColumnLists ==
    {RegCols \o Pick(ExtraCols, S) :
        S \in {T \in SUBSET (1..Len(ExtraCols)) : Cardinality(T) <= MaxExtraCols}}
    \cup {Tail(RegCols)}

\* Table(hdul[1].data)
Table(names) == [k \in 1..Len(names) |-> [name |-> names[k], value |-> <<"file", names[k]>>]]

colnames(t) == {t[k].name : k \in 1..Len(t)}

\* t[name]
column(t, name) == t[CHOOSE k \in 1..Len(t) : t[k].name = name].value

\* t[name] = value: replaces the column of that name, or appends a new one
setitem(t, name, value) ==
    IF name \in colnames(t)
    THEN [k \in 1..Len(t) |-> IF t[k].name = name THEN [name |-> name, value |-> value] ELSE t[k]]
    ELSE Append(t, [name |-> name, value |-> value])

\* the outcome of a table operation that raised KeyError
KeyError == [error |-> "KeyError"]

RECURSIVE rename_columns(_, _, _)
\* Table.rename_columns: one rename after the other; a missing column or a
\* new name that exists already is a KeyError
rename_columns(t, names, new_names) ==
    IF t = KeyError \/ names = <<>> THEN t
    ELSE IF Head(names) \notin colnames(t) \/ Head(new_names) \in colnames(t)
         THEN KeyError
         ELSE rename_columns(
                [k \in 1..Len(t) |->
                    IF t[k].name = Head(names)
                    THEN [name |-> Head(new_names), value |-> t[k].value]
                    ELSE t[k]],
                Tail(names), Tail(new_names))

\* variant: the whole column name in place of its first part
flux_name_whole(col) == col \o "_FLUX"

\* lines 59 and 61: the name of the derived column
flux_name(col) == split0(col) \o "_FLUX"
flux_err_name(col) == split0(col) \o "_FLUX_ERR"

RECURSIVE derive_fluxes(_, _)
\* lines 57-61, over the snapshot list(associations.columns)
derive_fluxes(t, cols) ==
    IF cols = <<>> THEN t
    ELSE LET col == Head(cols)
             t1 == IF endswith(col, "mjy")
                   THEN setitem(t, flux_name(col), <<"flux", column(t, col)>>)
                   ELSE t
             t2 == IF endswith(col, "mjy_err")
                   THEN setitem(t1, flux_err_name(col), <<"flux", column(t1, col)>>)
                   ELSE t1
         IN  derive_fluxes(t2, Tail(cols))

names_of(t) == [k \in 1..Len(t) |-> t[k].name]

\* lines 49-61: the table of the file made into the catalogue, or the
\* KeyError of a column the file lacks
modify_table(names) ==
    LET t0 == Table(names)
    IN  IF "reg_ra" \notin colnames(t0) \/ "reg_dec" \notin colnames(t0) THEN KeyError
        ELSE LET t1 == setitem(t0, "SkyCoord", <<"SkyCoord", column(t0, "reg_ra"), column(t0, "reg_dec")>>)
                 t2 == rename_columns(t1, RegCols, NewCols)
             IN  IF t2 = KeyError THEN KeyError
                 ELSE derive_fluxes(t2, names_of(t2))

\* ---- the mask image: a sequence of pixel values, numbers or NaN
PixelValues == {0, 1, 2, NaN}
SourceImages == [1..MaskPixels -> PixelValues]

\* == of floats: NaN equals nothing
float_eq(a, b) == a # NaN /\ b # NaN /\ a = b

\* line 73: mask[mask==0] = np.nan
zero_to_nan(image) == [p \in DOMAIN image |-> IF float_eq(image[p], 0) THEN NaN ELSE image[p]]

\* line 75: mask=mask==0, evaluated on the array line 73 has changed
mask_flag(mask) == [p \in DOMAIN mask |-> float_eq(mask[p], 0)]

\* lines 72-77
NDData(image) ==
    LET mask == zero_to_nan(image)
    IN  [data |-> mask, mask |-> mask_flag(mask)]

\* ---- the steps of read_associations
ScaleFolderStates ==
    {[path |-> "scale_folder", kind |-> "dir", entries |-> [f \in S |-> "file"]] : S \in SUBSET {catalogue_file, mask_file}}

\* read_associations(folder, target, scalepc, data=...)
CallReadAssociations ==
    /\ pc = "idle"
    /\ \E t \in TargetArgs, s \in ScaleArgs, d \in DataArgs :
         /\ target' = t
         /\ scalepc' = s
         /\ data' = d
    /\ call' = "read_associations"
    /\ pc' = "io_target"
    /\ UNCHANGED <<raised, stdout, result, fs, opened, source, associations, associations_mask>>
    /\ UNCHANGED plot_vars

\* line 35, the target folder is there
TargetFound ==
    /\ pc = "io_target"
    /\ \E d \in Directories("folder", RootNames) :
         /\ is_dir(d, target)
         /\ fs' = d
    /\ pc' = "io_scale"
    /\ UNCHANGED <<call, raised, stdout, result, target, scalepc, data, opened, source,
                   associations, associations_mask>>
    /\ UNCHANGED plot_vars

\* lines 35-37, the target folder is not there
TargetMissing ==
    /\ pc = "io_target"
    /\ \E d \in Directories("folder", RootNames) :
         /\ ~is_dir(d, target)
         /\ fs' = d
         /\ IF d.kind = "dir"
            THEN /\ stdout' = Append(stdout, [text |-> "target not available. Use",
                                              items |-> target_listing(d)])
                 /\ raised' = "FileNotFoundError"
            ELSE /\ stdout' = stdout
                 /\ raised' = iterdir_error(d)
    /\ pc' = "raised"
    /\ UNCHANGED <<call, result, target, scalepc, data, opened, source, associations, associations_mask>>
    /\ UNCHANGED plot_vars

\* line 39, the scale folder is there
ScaleFound ==
    /\ pc = "io_scale"
    /\ \E d \in Directories("target_folder", ScaleNames) :
         /\ is_dir(d, scale_dir(scalepc))
         /\ fs' = d
    /\ pc' = "io_catalogue"
    /\ UNCHANGED <<call, raised, stdout, result, target, scalepc, data, opened, source,
                   associations, associations_mask>>
    /\ UNCHANGED plot_vars

\* lines 39-42, the scale folder is not there
ScaleMissing ==
    /\ pc = "io_scale"
    /\ \E d \in Directories("target_folder", ScaleNames) :
         /\ ~is_dir(d, scale_dir(scalepc))
         /\ fs' = d
         /\ LET line40 == Append(stdout, [text |-> "scalepc=" \o str(scalepc) \o " not available. Use:",
                                          items |-> <<>>])
            IN  IF d.kind # "dir"
                THEN /\ stdout' = line40
                     /\ raised' = iterdir_error(d)
                ELSE IF \E x \in pc_entries(d) : ~IsIntLiteral(scale_text(x))
                THEN /\ stdout' = line40
                     /\ raised' = "ValueError"
                ELSE /\ stdout' = Append(line40, [text |-> "", items |-> scale_listing(d)])
                     /\ raised' = "FileNotFoundError"
    /\ pc' = "raised"
    /\ UNCHANGED <<call, result, target, scalepc, data, opened, source, associations, associations_mask>>
    /\ UNCHANGED plot_vars

\* lines 45-66
ReadCatalogue ==
    /\ pc = "io_catalogue"
    /\ wants_catalogue(data)
    /\ opened' = Append(opened, catalogue_file)
    /\ \E d \in ScaleFolderStates, names \in SourceColumnLists :
         /\ fs' = d
         /\ IF catalogue_file \notin DOMAIN d.entries
            THEN /\ raised' = "FileNotFoundError"
                 /\ pc' = "raised"
                 /\ UNCHANGED <<call, source, associations, result>>
            ELSE /\ source' = [source EXCEPT !.table = names]
                 /\ IF modify_table(names) = KeyError
                    THEN /\ raised' = "KeyError"
                         /\ pc' = "raised"
                         /\ UNCHANGED <<call, associations, result>>
                    ELSE /\ associations' = modify_table(names)
                         /\ raised' = raised
                         /\ IF data = "catalogue"
                            THEN /\ result' = associations'
                                 /\ pc' = "returned"
                            ELSE /\ result' = result
                                 /\ pc' = "io_mask"
    /\ UNCHANGED <<call, stdout, target, scalepc, data, associations_mask>>
    /\ UNCHANGED plot_vars

\* line 45, the selector asks for no catalogue
SkipCatalogue ==
    /\ pc = "io_catalogue"
    /\ ~wants_catalogue(data)
    /\ pc' = "io_mask"
    /\ UNCHANGED <<call, raised, stdout, result, io_vars>>
    /\ UNCHANGED plot_vars

\* lines 68-79
ReadMask ==
    /\ pc = "io_mask"
    /\ wants_mask(data)
    /\ opened' = Append(opened, mask_file)
    /\ \E d \in ScaleFolderStates, image \in SourceImages :
         /\ fs' = d
         /\ IF mask_file \notin DOMAIN d.entries
            THEN /\ raised' = "FileNotFoundError"
                 /\ pc' = "raised"
                 /\ UNCHANGED <<call, source, associations_mask, result>>
            ELSE /\ source' = [source EXCEPT !.image = image]
                 /\ associations_mask' = NDData(image)
                 /\ raised' = raised
                 /\ IF data = "mask"
                    THEN /\ result' = associations_mask'
                         /\ pc' = "returned"
                    ELSE /\ result' = result
                         /\ pc' = "io_return"
    /\ UNCHANGED <<call, stdout, target, scalepc, data, associations>>
    /\ UNCHANGED plot_vars

\* line 68, the selector asks for no mask
SkipMask ==
    /\ pc = "io_mask"
    /\ ~wants_mask(data)
    /\ pc' = "io_return"
    /\ UNCHANGED <<call, raised, stdout, result, io_vars>>
    /\ UNCHANGED plot_vars

\* line 81; a selector that read neither file left the two names unbound
ReturnBoth ==
    /\ pc = "io_return"
    /\ IF associations = None \/ associations_mask = None
       THEN /\ raised' = "UnboundLocalError"
            /\ pc' = "raised"
            /\ result' = result
       ELSE /\ result' = <<associations, associations_mask>>
            /\ pc' = "returned"
            /\ raised' = raised
    /\ UNCHANGED <<call, stdout, io_vars>>
    /\ UNCHANGED plot_vars

read_associations ==
    \/ CallReadAssociations
    \/ TargetFound
    \/ TargetMissing
    \/ ScaleFound
    \/ ScaleMissing
    \/ ReadCatalogue
    \/ SkipCatalogue
    \/ ReadMask
    \/ SkipMask
    \/ ReturnBoth

(***************************************************************************)
(* cluster/plot/cutouts.py: the images, the cutouts and single_cutout      *)
(*                                                                         *)
(* Sky coordinates are counted in pixels of the finest image.  An image or *)
(* a mask has a scale, the number of finest pixels one of its pixels       *)
(* spans, and its pixel t covers the sky scale*t .. scale*t + scale - 1.   *)
(* A mask carries one label per pixel column (the labels do not vary with  *)
(* the row), so the boundary of a label in a cutout is one line for every  *)
(* pair of neighbouring columns of which exactly one carries the label.    *)
(***************************************************************************)
PixPerArcsec == 4       \* finest pixels per arcsecond
ImageSize == 20         \* rows and columns of the finest image

Margin == 5             \* line 67: pixels a marked point keeps from the edges
FixedSize == 4          \* lines 113 and 174: size = 4*u.arcsecond

ceil_div(a, b) == 0 - ((0 - a) \div b)

\* int(np.round(a / b)), halves to the even neighbour
round_div(a, b) ==
    LET q == a \div b
        r == a % b
    IN  IF 2 * r > b THEN q + 1
        ELSE IF 2 * r < b THEN q
        ELSE IF q % 2 = 0 THEN q ELSE q + 1

max2(a, b) == IF a >= b THEN a ELSE b
min2(a, b) == IF a <= b THEN a ELSE b

\* the background image: shape is (rows, columns) as numpy's data.shape
image == [scale |-> 1, shape |-> <<ImageSize, ImageSize>>]

\* Cutout2D(image.data, position, size=size, wcs=image.wcs) in its default
\* mode 'trim': the window of round(size / pixel scale) pixels around the
\* position, cut at the edges of the image.  position is (x, y) on the sky,
\* size is in arcseconds.
Cutout2D(img, position, size) ==
    LET k == img.scale
        n == round_div(size * PixPerArcsec, k)
        lo(p) == ceil_div(2 * p - k + 1 - k * n, 2 * k)
        hi(p) == ceil_div(2 * p - k + 1 + k * n, 2 * k)
        x0 == max2(0, lo(position[1]))
        x1 == min2(img.shape[2], hi(position[1]))
        y0 == max2(0, lo(position[2]))
        y1 == min2(img.shape[1], hi(position[2]))
    IN  [scale |-> k, origin |-> <<x0, y0>>, shape |-> <<y1 - y0, x1 - x0>>]

\* reproject_interp(mask, output_projection=cutout.wcs, shape_out=cutout.shape,
\* order='nearest-neighbor'): for every column of the cutout the label of the
\* mask pixel that holds its centre, NaN outside the mask
reproject_interp(mask, cutout) ==
    [x \in 0..(cutout.shape[2] - 1) |->
        LET j == (2 * cutout.scale * (cutout.origin[1] + x) + cutout.scale) \div (2 * mask.scale)
        IN  IF j \in 0..(Len(mask.labels) - 1) THEN mask.labels[j + 1] ELSE NaN]

\* np.unique(cutout_mask[~np.isnan(cutout_mask)]) as a set
unique(cutout_mask) == {cutout_mask[x] : x \in DOMAIN cutout_mask} \ {NaN}

RECURSIVE sorted(_)
\* the ascending order np.unique returns
sorted(S) == IF S = {} THEN <<>> ELSE <<Min(S)>> \o sorted(S \ {Min(S)})

\* lines 31-32: blank_mask = zeros_like(cutout_mask); blank_mask[cutout_mask==i] = 1
blank_mask(cutout_mask, i) ==
    [x \in DOMAIN cutout_mask |-> IF float_eq(cutout_mask[x], i) THEN 1 ELSE 0]

RECURSIVE crossings(_, _)
\* the columns x < n whose right neighbour differs, ascending
crossings(b, n) ==
    IF n <= 0 THEN <<>>
    ELSE crossings(b, n - 1) \o (IF b[n - 1] # b[n] THEN <<n - 1>> ELSE <<>>)

\* find_contours(blank_mask, 0.5): one contour for every pair of columns the
\* 0.5 level runs between
find_contours(b) == crossings(b, Cardinality(DOMAIN b) - 1)

RECURSIVE contours_of(_, _)
\* lines 29-33: contours += find_contours(blank_mask, 0.5) for i in region_ID
contours_of(cutout_mask, region_ID) ==
    IF region_ID = <<>> THEN <<>>
    ELSE LET i == Head(region_ID)
             found == find_contours(blank_mask(cutout_mask, i))
         IN  [c \in 1..Len(found) |-> [region |-> i, at |-> found[c]]]
             \o contours_of(cutout_mask, Tail(region_ID))

\* lines 26-36 and 45-55: the outlines of one mask, one plotted line each
mask_lines(mask, cutout, color, label) ==
    LET cutout_mask == reproject_interp(mask, cutout)
        contours == contours_of(cutout_mask, sorted(unique(cutout_mask)))
    IN  [c \in 1..Len(contours) |->
            [label |-> label, color |-> color, ls |-> "-", coords |-> contours[c]]]

\* region.contains(points['SkyCoord'], cutout_image.wcs) of the square of
\* 0.9*size around the position: |dx| < 0.45*size and |dy| < 0.45*size
in_region(point, position, size) ==
    LET inside(d) == 20 * d < 9 * size * PixPerArcsec /\ 0 - 20 * d < 9 * size * PixPerArcsec
    IN  inside(point[1] - position[1]) /\ inside(point[2] - position[2])

\* row['SkyCoord'].to_pixel(cutout_image.wcs), in units of 1/(2*scale) pixel
to_pixel(point, cutout) ==
    [c \in 1..2 |-> 2 * point[c] - cutout.scale + 1 - 2 * cutout.scale * cutout.origin[c]]

\* line 67: 5<x<cutout_image.data.shape[0]-5 and 5<y<cutout_image.data.shape[1]-5,
\* python's shape[0] the rows and shape[1] the columns
in_margin(x, y, cutout) ==
    LET u == 2 * cutout.scale
    IN  /\ Margin * u < x /\ x < (cutout.shape[1] - Margin) * u
        /\ Margin * u < y /\ y < (cutout.shape[2] - Margin) * u

\* lines 62-68: the points that get a marker, in the order of the table
point_markers(points, position, size, cutout) ==
    LET draws(pt) ==
            /\ in_region(pt, position, size)
            /\ in_margin(to_pixel(pt, cutout)[1], to_pixel(pt, cutout)[2], cutout)
    IN  SelectSeq(points, draws)

\* an axes of plt.subplots before anything is drawn in it
new_axes ==
    [state |-> "empty", position |-> <<>>, shape |-> <<0, 0>>, images |-> <<>>,
     lines |-> <<>>, markers |-> <<>>, text |-> "", legend |-> <<>>, ticks |-> TRUE]

\* single_cutout(ax, position, image, mask1, mask2, points, label, size);
\* mask2 and points may be None, label may be empty
single_cutout(ax, position, img, mask1, mask2, points, label, size) ==
    LET cutout_image == Cutout2D(img, position, size)
        lines1 == mask_lines(mask1, cutout_image, "tab:red", "HII-region")
        lines2 == IF mask2 # None
                  THEN mask_lines(mask2, cutout_image, "tab:blue", "association")
                  ELSE <<>>
    IN  [ax EXCEPT
            !.state = "drawn",
            !.position = position,
            !.shape = cutout_image.shape,
            !.images = ax.images \o <<"cutout", "mask1">>
                       \o (IF mask2 # None THEN <<"mask2">> ELSE <<>>),
            !.lines = ax.lines \o lines1 \o lines2,
            !.markers = IF points # None
                        THEN ax.markers \o point_markers(points, position, size, cutout_image)
                        ELSE ax.markers,
            !.text = label,
            !.ticks = FALSE]

\* ax.get_legend_handles_labels(): the labelled artists, lines before markers
get_legend_handles_labels(ax) ==
    [h \in 1..Len(ax.lines) |-> ax.lines[h].label]
    \o [h \in 1..Len(ax.markers) |-> "cluster"]

\* ---- what the calls of the model pass
\* positions of cutouts, (x, y) on the sky
PositionArgs == {<<8, 10>>, <<12, 4>>}

\* label masks at twice the pixel size of the image
NoLabels == [scale |-> 2, labels |-> <<NaN, NaN, NaN, NaN, NaN, NaN, NaN, NaN, NaN, NaN>>]
MaskA == [scale |-> 2, labels |-> <<NaN, 1, 1, NaN, NaN, NaN, NaN, NaN, NaN, NaN>>]
MaskB == [scale |-> 2, labels |-> <<3, 3, 3, 3, 3, 3, 3, 3, NaN, 2>>]
MaskArgs == {NoLabels, MaskA, MaskB}

\* every point of the image grid
PointArgs == (0..(ImageSize - 1)) \X (0..(ImageSize - 1))

\* the pairs (mask1, mask2) the calls pass; mask2 may be None
MaskPairs ==
    {<<MaskA, None>>, <<MaskB, None>>, <<MaskA, MaskB>>, <<NoLabels, MaskA>>, <<NoLabels, None>>}

MaxPositions == 4       \* positions of one call
MaxCols == 3            \* columns of a grid
MaxRows == 2            \* rows of a page
MaxPageCols == 2        \* columns of a page

PositionLists == UNION {[1..n -> PositionArgs] : n \in 0..MaxPositions}

\* one label per position
labels_for(positions) == [k \in 1..Len(positions) |-> str(k)]

\* the single_cutout of a direct call
SingleCutout ==
    /\ pc = "idle"
    /\ \E position \in PositionArgs \cup {<<10, 10>>},
          mask1 \in {MaskA, NoLabels},
          points \in {None} \cup {<<pt>> : pt \in PointArgs} :
         /\ args' = [position |-> position, mask1 |-> mask1, mask2 |-> None,
                     points |-> points, label |-> "7", size |-> 4]
         /\ result' = single_cutout(new_axes, position, image, mask1, None, points, "7", 4)
    /\ call' = "single_cutout"
    /\ pc' = "returned"
    /\ UNCHANGED <<raised, stdout, io_vars, locals, fig, written>>

(***************************************************************************)
(* cluster/plot/cutouts.py: multi_cutout                                   *)
(***************************************************************************)
\* fig, axes = plt.subplots(nrows, ncols): the axes of the grid, row by row
subplots(nrows, ncols) == [k \in 1..(nrows * ncols) |-> new_axes]

\* what plt.subplots or axes.flatten() raises: no grid without rows, and a
\* grid of one cell comes back as the bare Axes, which has no flatten
subplots_error(nrows, ncols) ==
    IF nrows < 1 \/ ncols < 1 THEN "ValueError"
    ELSE IF nrows * ncols = 1 THEN "AttributeError"
    ELSE "none"

\* the pairs zip(positions, labels) yields
zip_len(positions, labels) == min2(Len(positions), Len(labels))

\* lines 79-98
CallMultiCutout ==
    /\ pc = "idle"
    /\ \E positions \in PositionLists, masks \in MaskPairs, ncols \in 1..MaxCols,
          filename \in {"", "cutouts"} :
         /\ args' = [positions |-> positions, labels |-> labels_for(positions),
                     mask1 |-> masks[1], mask2 |-> masks[2], ncols |-> ncols,
                     filename |-> filename]
         /\ locals' = [nrows |-> ceil_div(Len(positions), ncols), axes_iter |-> 0,
                       k |-> 0, i |-> 0]
    /\ call' = "multi_cutout"
    /\ pc' = "mc_subplots"
    /\ UNCHANGED <<raised, stdout, result, io_vars, fig, written>>

\* lines 100-102
MultiCutoutSubplots ==
    /\ pc = "mc_subplots"
    /\ IF subplots_error(locals.nrows, args.ncols) # "none"
       THEN /\ raised' = subplots_error(locals.nrows, args.ncols)
            /\ pc' = "raised"
            /\ fig' = fig
       ELSE /\ fig' = subplots(locals.nrows, args.ncols)
            /\ pc' = "mc_draw"
            /\ raised' = raised
    /\ UNCHANGED <<call, stdout, result, io_vars, args, locals, written>>

\* lines 104-113, one turn of the loop
MultiCutoutDraw ==
    /\ pc = "mc_draw"
    /\ locals.k < zip_len(args.positions, args.labels)
    /\ LET ax == locals.axes_iter + 1
       IN  fig' = [fig EXCEPT ![ax] =
                     single_cutout(fig[ax], args.positions[locals.k + 1], image,
                                   args.mask1, args.mask2, None,
                                   args.labels[locals.k + 1], FixedSize)]
    /\ locals' = [locals EXCEPT !.k = @ + 1, !.axes_iter = @ + 1]
    /\ UNCHANGED <<call, pc, raised, stdout, result, io_vars, args, written>>

\* line 104, the loop is over
MultiCutoutDrawn ==
    /\ pc = "mc_draw"
    /\ locals.k >= zip_len(args.positions, args.labels)
    /\ pc' = "mc_remove"
    /\ UNCHANGED <<call, raised, stdout, result, io_vars, args, locals, fig, written>>

\* lines 115-119, one turn of the loop
MultiCutoutRemove ==
    /\ pc = "mc_remove"
    /\ locals.i < locals.nrows * args.ncols - Len(args.positions)
    /\ fig' = [fig EXCEPT ![locals.axes_iter + 1].state = "removed"]
    /\ locals' = [locals EXCEPT !.i = @ + 1, !.axes_iter = @ + 1]
    /\ UNCHANGED <<call, pc, raised, stdout, result, io_vars, args, written>>

\* lines 121-126
MultiCutoutShow ==
    /\ pc = "mc_remove"
    /\ locals.i >= locals.nrows * args.ncols - Len(args.positions)
    /\ written' = IF args.filename # ""
                  THEN [suffix |-> ".png", pages |-> <<fig>>, open |-> FALSE]
                  ELSE written
    /\ pc' = "returned"
    /\ UNCHANGED <<call, raised, stdout, result, io_vars, args, locals, fig>>

multi_cutout ==
    \/ CallMultiCutout
    \/ MultiCutoutSubplots
    \/ MultiCutoutDraw
    \/ MultiCutoutDrawn
    \/ MultiCutoutRemove
    \/ MultiCutoutShow

(***************************************************************************)
(* cluster/plot/cutouts.py: multi_page_cutout                              *)
(***************************************************************************)
\* seq[::step] for a step that is not 0
slice_step(seq, step) ==
    IF step > 0
    THEN [k \in 1..ceil_div(Len(seq), step) |-> seq[(k - 1) * step + 1]]
    ELSE [k \in 1..ceil_div(Len(seq), 0 - step) |-> seq[Len(seq) + (k - 1) * step]]

\* seq[a:b] for 0 <= a <= b
slice(seq, a, b) == SubSeq(seq, min2(a, Len(seq)) + 1, min2(b, Len(seq)))

\* lines 149-153
CallMultiPageCutout ==
    /\ pc = "idle"
    /\ \E positions \in PositionLists, masks \in MaskPairs,
          nrows \in 1..MaxRows, ncols \in 1..MaxPageCols :
         /\ args' = [positions |-> positions, labels |-> labels_for(positions),
                     mask1 |-> masks[1], mask2 |-> masks[2],
                     nrows |-> nrows, ncols |-> ncols, filename |-> "cutouts"]
         /\ locals' = [N |-> Len(positions), Npage |-> nrows * ncols,
                       Npages |-> ceil_div(Len(positions), nrows * ncols),
                       range_iter |-> 0, i |-> 0, axes_iter |-> 0, k |-> 0,
                       sub_positions |-> <<>>, sub_labels |-> <<>>]
    /\ written' = [suffix |-> ".pdf", pages |-> <<>>, open |-> TRUE]
    /\ call' = "multi_page_cutout"
    /\ pc' = "mp_page"
    /\ UNCHANGED <<raised, stdout, result, io_vars, fig>>

\* lines 155-163: the next page, its slice of the positions and its grid
PageSubplots ==
    /\ pc = "mp_page"
    /\ locals.range_iter < locals.Npages
    /\ LET i == locals.range_iter
       IN  /\ stdout' = Append(stdout, [text |-> "working on page", items |-> <<i + 1, locals.Npages>>])
           /\ locals' = [locals EXCEPT
                           !.i = i,
                           !.range_iter = i + 1,
                           !.sub_positions = slice(args.positions, i * locals.Npage, (i + 1) * locals.Npage),
                           !.sub_labels = slice(args.labels, i * locals.Npage, (i + 1) * locals.Npage),
                           !.axes_iter = 0,
                           !.k = 0]
    /\ IF subplots_error(args.nrows, args.ncols) # "none"
       THEN /\ raised' = subplots_error(args.nrows, args.ncols)
            /\ pc' = "raised"
            /\ written' = [written EXCEPT !.open = FALSE]
            /\ fig' = fig
       ELSE /\ fig' = subplots(args.nrows, args.ncols)
            /\ pc' = "mp_draw"
            /\ UNCHANGED <<raised, written>>
    /\ UNCHANGED <<call, result, io_vars, args>>

\* lines 165-174, one turn of the loop
PageDraw ==
    /\ pc = "mp_draw"
    /\ locals.k < zip_len(locals.sub_positions, locals.sub_labels)
    /\ LET ax == locals.axes_iter + 1
       IN  fig' = [fig EXCEPT ![ax] =
                     single_cutout(fig[ax], locals.sub_positions[locals.k + 1], image,
                                   args.mask1, args.mask2, None,
                                   locals.sub_labels[locals.k + 1], FixedSize)]
    /\ locals' = [locals EXCEPT !.k = @ + 1, !.axes_iter = @ + 1]
    /\ UNCHANGED <<call, pc, raised, stdout, result, io_vars, args, written>>

\* lines 165-179: the loop is over; line 179 tells the last page
PageDrawn ==
    /\ pc = "mp_draw"
    /\ locals.k >= zip_len(locals.sub_positions, locals.sub_labels)
    /\ pc' = IF locals.i = ceil_div(locals.N, locals.Npage) - 1 THEN "mp_legend" ELSE "mp_save"
    /\ UNCHANGED <<call, raised, stdout, result, io_vars, args, locals, fig, written>>

\* line 183: h[::len(h)-1]
first_and_last(h) == slice_step(h, Len(h) - 1)

\* lines 180-184: the legend panel of the last page
PageLegend ==
    /\ pc = "mp_legend"
    /\ LET h == get_legend_handles_labels(fig[1])
           ax == locals.axes_iter + 1
       IN  IF locals.axes_iter >= Len(fig)
           THEN /\ raised' = "StopIteration"
                /\ pc' = "raised"
                /\ written' = [written EXCEPT !.open = FALSE]
                /\ UNCHANGED <<fig, locals>>
           ELSE IF Len(h) - 1 = 0
           THEN /\ raised' = "ValueError"
                /\ pc' = "raised"
                /\ written' = [written EXCEPT !.open = FALSE]
                /\ fig' = [fig EXCEPT ![ax].state = "off"]
                /\ locals' = [locals EXCEPT !.axes_iter = @ + 1]
           ELSE /\ fig' = [fig EXCEPT ![ax].state = "off",
                                      ![ax].legend = first_and_last(h),
                                      ![ax].text = "region ID/assoc ID"]
                /\ locals' = [locals EXCEPT !.axes_iter = @ + 1, !.i = 0]
                /\ pc' = "mp_off"
                /\ UNCHANGED <<raised, written>>
    /\ UNCHANGED <<call, stdout, result, io_vars, args>>

\* lines 186-189, one turn of the loop (its variable is the i of the pages)
PageOff ==
    /\ pc = "mp_off"
    /\ locals.i < args.nrows * args.ncols - Len(locals.sub_positions) - 1
    /\ fig' = [fig EXCEPT ![locals.axes_iter + 1].state = "off"]
    /\ locals' = [locals EXCEPT !.i = @ + 1, !.axes_iter = @ + 1]
    /\ UNCHANGED <<call, pc, raised, stdout, result, io_vars, args, written>>

\* line 186, the loop is over
PageOffDone ==
    /\ pc = "mp_off"
    /\ locals.i >= args.nrows * args.ncols - Len(locals.sub_positions) - 1
    /\ pc' = "mp_save"
    /\ UNCHANGED <<call, raised, stdout, result, io_vars, args, locals, fig, written>>

\* lines 191-192
PageSave ==
    /\ pc = "mp_save"
    /\ written' = [written EXCEPT !.pages = Append(@, fig)]
    /\ fig' = <<>>
    /\ pc' = "mp_page"
    /\ UNCHANGED <<call, raised, stdout, result, io_vars, args, locals>>

\* line 155 has no page left, the with block of line 153 closes the document
PagesDone ==
    /\ pc = "mp_page"
    /\ locals.range_iter >= locals.Npages
    /\ written' = [written EXCEPT !.open = FALSE]
    /\ pc' = "returned"
    /\ UNCHANGED <<call, raised, stdout, result, io_vars, args, locals, fig>>

multi_page_cutout ==
    \/ CallMultiPageCutout
    \/ PageSubplots
    \/ PageDraw
    \/ PageDrawn
    \/ PageLegend
    \/ PageOff
    \/ PageOffDone
    \/ PageSave
    \/ PagesDone

(***************************************************************************)
(* cluster/plot/cutouts.py: plot_cluster_nebulae                           *)
(***************************************************************************)
MusePixel == 2          \* finest pixels per pixel of the Halpha image

F275 == image
Halpha == [scale |-> MusePixel, shape |-> <<ImageSize \div MusePixel, ImageSize \div MusePixel>>]

\* nebulae masks on the grid of the Halpha image
NebulaeA == [scale |-> 2, labels |-> <<NaN, NaN, NaN, 5, NaN, 7, 7, NaN, NaN, NaN>>]
NebulaeB == [scale |-> 2, labels |-> <<NaN, NaN, NaN, NaN, 5, 5, 7, NaN, NaN, NaN>>]
NebulaeArgs == {NebulaeA, NebulaeB, NoLabels}

\* lines 275-277 and the like: the contours of one label in one mask
label_lines(cutout_mask, i, color, ls) ==
    LET found == find_contours(blank_mask(cutout_mask, i))
    IN  [c \in 1..Len(found) |->
            [label |-> "", color |-> color, ls |-> ls, coords |-> [region |-> i, at |-> found[c]]]]

\* lines 199-259: the cutouts and the four panels with their images
CallPlotClusterNebulae ==
    /\ pc = "idle"
    /\ \E position \in {<<10, 10>>, <<11, 10>>}, size \in {2, 3},
          nebulae_mask \in NebulaeArgs, assoc_mask \in {MaskA, NoLabels},
          HII_regions \in {{}, {7}, {5, 7}}, filename \in {"", "nebula"} :
         /\ args' = [position |-> position, size |-> size, nebulae_mask |-> nebulae_mask,
                     associations_mask |-> assoc_mask, HII_regions |-> HII_regions,
                     filename |-> filename]
         /\ locals' = [hst_cutout |-> Cutout2D(F275, position, size),
                       HA_cutout |-> Cutout2D(Halpha, position, size),
                       nebulae_mask_hst |-> <<>>, nebulae_mask_muse |-> <<>>,
                       region_ID |-> <<>>,
                       contours_hst_hii |-> <<>>, contours_hst_neb |-> <<>>,
                       contours_muse_hii |-> <<>>, contours_muse_neb |-> <<>>,
                       contours_hst_asc |-> <<>>]
         /\ fig' = [k \in 1..4 |->
                      [new_axes EXCEPT
                          !.state = "drawn",
                          !.position = position,
                          !.images = <<(<<"gri", "FUV", "Halpha", "F275">>)[k]>>,
                          !.shape = (<<Halpha.shape, Cutout2D(Halpha, position, size).shape,
                                       Cutout2D(Halpha, position, size).shape,
                                       Cutout2D(F275, position, size).shape>>)[k]]]
    /\ call' = "plot_cluster_nebulae"
    /\ pc' = "neb_reproject"
    /\ UNCHANGED <<raised, stdout, result, io_vars, written>>

\* lines 262-271
NebulaeReproject ==
    /\ pc = "neb_reproject"
    /\ LET hst == reproject_interp(args.nebulae_mask, locals.hst_cutout)
           muse == reproject_interp(args.nebulae_mask, locals.HA_cutout)
       IN  locals' = [locals EXCEPT
                        !.nebulae_mask_hst = hst,
                        !.nebulae_mask_muse = muse,
                        !.region_ID = sorted(unique(muse))]
    /\ pc' = "neb_contours"
    /\ UNCHANGED <<call, raised, stdout, result, io_vars, args, fig, written>>

\* lines 273-289, one turn of the loop
NebulaeContours ==
    /\ pc = "neb_contours"
    /\ locals.region_ID # <<>>
    /\ LET i == Head(locals.region_ID)
           hst(ls) == label_lines(locals.nebulae_mask_hst, i, "tab:blue", ls)
           muse(ls) == label_lines(locals.nebulae_mask_muse, i, "black", ls)
       IN  IF i \in args.HII_regions
           THEN locals' = [locals EXCEPT
                             !.region_ID = Tail(@),
                             !.contours_hst_hii = @ \o hst("-"),
                             !.contours_muse_hii = @ \o muse("-")]
           ELSE locals' = [locals EXCEPT
                             !.region_ID = Tail(@),
                             !.contours_hst_neb = @ \o hst("--"),
                             !.contours_muse_neb = @ \o muse("--")]
    /\ UNCHANGED <<call, pc, raised, stdout, result, io_vars, args, fig, written>>

RECURSIVE all_label_lines(_, _, _, _)
all_label_lines(cutout_mask, region_ID, color, ls) ==
    IF region_ID = <<>> THEN <<>>
    ELSE label_lines(cutout_mask, Head(region_ID), color, ls)
         \o all_label_lines(cutout_mask, Tail(region_ID), color, ls)

\* lines 291-296
AssociationContours ==
    /\ pc = "neb_contours"
    /\ locals.region_ID = <<>>
    /\ LET cutout_mask == reproject_interp(args.associations_mask, locals.hst_cutout)
       IN  locals' = [locals EXCEPT
                        !.contours_hst_asc =
                            all_label_lines(cutout_mask, sorted(unique(cutout_mask)), "tab:red", "-")]
    /\ pc' = "neb_plot"
    /\ UNCHANGED <<call, raised, stdout, result, io_vars, args, fig, written>>

\* lines 298-307
NebulaePlot ==
    /\ pc = "neb_plot"
    /\ fig' = [fig EXCEPT
                 ![3].lines = @ \o locals.contours_muse_hii \o locals.contours_muse_neb,
                 ![4].lines = @ \o locals.contours_hst_hii \o locals.contours_hst_neb
                                \o locals.contours_hst_asc]
    /\ pc' = "neb_save"
    /\ UNCHANGED <<call, raised, stdout, result, io_vars, args, locals, written>>

\* lines 328-341
NebulaeSave ==
    /\ pc = "neb_save"
    /\ fig' = [k \in 1..4 |-> [fig[k] EXCEPT !.ticks = FALSE]]
    /\ IF args.filename # ""
       THEN /\ stdout' = Append(stdout, [text |-> "save image to file", items |-> <<>>])
            /\ written' = [suffix |-> ".png.pdf", pages |-> <<fig'>>, open |-> FALSE]
       ELSE UNCHANGED <<stdout, written>>
    /\ pc' = "returned"
    /\ UNCHANGED <<call, raised, result, io_vars, args, locals>>

plot_cluster_nebulae ==
    \/ CallPlotClusterNebulae
    \/ NebulaeReproject
    \/ NebulaeContours
    \/ AssociationContours
    \/ NebulaePlot
    \/ NebulaeSave

(***************************************************************************)
(* The program.                                                            *)
(***************************************************************************)
Init ==
    /\ call = "none"
    /\ pc = "idle"
    /\ raised = "none"
    /\ stdout = <<>>
    /\ result = None
    /\ target = ""
    /\ scalepc = 0
    /\ data = ""
    /\ fs = [path |-> "", kind |-> "missing", entries |-> <<>>]
    /\ opened = <<>>
    /\ source = [table |-> None, image |-> None]
    /\ associations = None
    /\ associations_mask = None
    /\ args = None
    /\ locals = None
    /\ fig = <<>>
    /\ written = None

Next ==
    \/ read_associations
    \/ SingleCutout
    \/ multi_cutout
    \/ multi_page_cutout
    \/ plot_cluster_nebulae

Spec == Init /\ [][Next]_vars

(***************************************************************************)
(* Properties of read_associations.                                        *)
(***************************************************************************)
Range(f) == {f[x] : x \in DOMAIN f}

io_call == call = "read_associations"

\* the directories among the entries of the directory examined last
subdirs(d) == {x \in DOMAIN d.entries : d.entries[x] = "dir"}

\* C1: with the target and the scale directory there, a call that returns
\* returns by the selector: 'catalogue' the table alone, the mask file never
\* opened; 'mask' the image alone, the catalogue file never opened; 'all'
\* both files opened and the pair (catalogue, mask) in that order.
C1_SelectorDecidesResult ==
    io_call =>
        /\ data = "catalogue" => mask_file \notin Range(opened)
        /\ data = "mask" => catalogue_file \notin Range(opened)
        /\ pc = "returned" =>
            /\ data \in {"catalogue", "mask", "all"}
            /\ data = "catalogue" =>
                /\ result = associations
                /\ associations # None
                /\ opened = <<catalogue_file>>
            /\ data = "mask" =>
                /\ result = associations_mask
                /\ associations_mask # None
                /\ opened = <<mask_file>>
            /\ data = "all" =>
                /\ result = <<associations, associations_mask>>
                /\ associations # None /\ associations_mask # None
                /\ opened = <<catalogue_file, mask_file>>

C1_Witness ==
    /\ io_call /\ pc = "returned" /\ data = "all"
    /\ Len(result) = 2 /\ Len(opened) = 2

\* the state a call is in when line 35 found no target directory
target_absent == io_call /\ fs.path = "folder" /\ ~is_dir(fs, target)

\* C2 as claimed: whatever the file system, an absent target directory ends
\* the call in the not-found error, after a diagnostic that lists at least
\* one valid target name; no FITS file opened, nothing returned.
C2_Original ==
    target_absent =>
        /\ pc = "raised" /\ raised = "FileNotFoundError"
        /\ Len(stdout) = 1
        /\ \E x \in DOMAIN stdout[1].items : stdout[1].items[x] \in subdirs(fs)
        /\ opened = <<>> /\ result = None

\* C2, amended: when the folder of the targets is a directory and the target
\* directory is absent, the call ends in the not-found error after one
\* diagnostic that lists every entry of the folder by its name without the
\* last suffix, so that every target directory whose name has no dot is
\* listed by name; no FITS file opened, nothing returned.
C2_ListsEntriesThenNotFound ==
    (target_absent /\ fs.kind = "dir") =>
        /\ pc = "raised" /\ raised = "FileNotFoundError"
        /\ Len(stdout) = 1
        /\ DOMAIN stdout[1].items = DOMAIN fs.entries
        /\ \A x \in DOMAIN fs.entries :
             LET item == stdout[1].items[x]
             IN  /\ Len(item) <= Len(x)
                 /\ SubSeq(x, 1, Len(item)) = item
                 /\ rfind(x, ".") \in {0, 1, Len(x)} => item = x
                 /\ rfind(x, ".") \notin {0, 1, Len(x)} =>
                        /\ Len(item) = rfind(x, ".") - 1
        /\ \A x \in subdirs(fs) : rfind(x, ".") = 0 => x \in Range(stdout[1].items)
        /\ opened = <<>> /\ result = None

C2_Witness ==
    /\ target_absent /\ fs.kind = "dir" /\ pc = "raised"
    /\ subdirs(fs) # {}
    /\ \E x \in DOMAIN fs.entries : stdout[1].items[x] # x

\* the state a call is in when line 39 found no scale directory
scale_absent == io_call /\ fs.path = "target_folder" /\ ~is_dir(fs, scale_dir(scalepc))

\* the integer scales that are there: the n with a subdirectory '{n}pc'
valid_scales(d) == {n \in 0..99 : scale_dir(n) \in subdirs(d)}

\* C3: for a valid target whose scale directory is absent the call ends in
\* the not-found error, and in no other, after a diagnostic that lists at
\* least one valid integer scale; no FITS file is opened.  Stated for the
\* target folders that are directories holding at least one valid scale.
C3_ScaleNotFound ==
    (scale_absent /\ fs.kind = "dir" /\ valid_scales(fs) # {}) =>
        /\ pc = "raised" /\ raised = "FileNotFoundError"
        /\ Len(stdout) = 2
        /\ \E x \in DOMAIN stdout[2].items : stdout[2].items[x] \in valid_scales(fs)
        /\ opened = <<>> /\ result = None

\* C4: a pixel of source value 0 is loaded as not-a-number with the validity
\* flag true; a pixel of a nonzero value v is loaded as v with the flag false.
C4_MaskPixels ==
    (io_call /\ associations_mask # None) =>
        \A p \in DOMAIN source.image :
            /\ source.image[p] = 0 =>
                /\ associations_mask.data[p] = NaN
                /\ associations_mask.mask[p] = TRUE
            /\ source.image[p] \notin {0, NaN} =>
                /\ associations_mask.data[p] = source.image[p]
                /\ associations_mask.mask[p] = FALSE

\* the source columns the loop of line 57 derives a flux from
mjy_columns(names) == {names[k] : k \in {j \in 1..Len(names) : endswith(names[j], "mjy")}}
mjy_err_columns(names) == {names[k] : k \in {j \in 1..Len(names) : endswith(names[j], "mjy_err")}}

\* the last column of names that ends in suffix and starts with the part of c
\* before its first underscore
last_of_prefix(names, c, suffix) ==
    names[Max({k \in 1..Len(names) :
                 endswith(names[k], suffix) /\ split0(names[k]) = split0(c)})]

canonical_schema ==
    /\ Range(NewCols) \subseteq colnames(associations)
    /\ Range(RegCols) \cap colnames(associations) = {}

\* C5 as claimed: the catalogue has the canonical columns, none of the reg_*
\* names, and one distinct <prefix>_FLUX (<prefix>_FLUX_ERR) column for
\* every source column ending in 'mjy' ('mjy_err').
C5_Original ==
    (io_call /\ associations # None) =>
        /\ canonical_schema
        /\ \A c \in mjy_columns(source.table) :
              split0(c) \o "_FLUX" \in colnames(associations)
        /\ \A c \in mjy_err_columns(source.table) :
              split0(c) \o "_FLUX_ERR" \in colnames(associations)
        /\ \A c1, c2 \in mjy_columns(source.table) :
              c1 # c2 => split0(c1) \o "_FLUX" # split0(c2) \o "_FLUX"
        /\ \A c1, c2 \in mjy_err_columns(source.table) :
              c1 # c2 => split0(c1) \o "_FLUX_ERR" # split0(c2) \o "_FLUX_ERR"

\* C5, amended: the catalogue has the canonical columns, none of the reg_*
\* names, and for every source column ending in 'mjy' ('mjy_err') the column
\* <prefix>_FLUX (<prefix>_FLUX_ERR); source columns of one prefix share one
\* derived column, which holds the flux of the last of them.
C5_CanonicalSchema ==
    (io_call /\ associations # None) =>
        /\ canonical_schema
        /\ \A c \in mjy_columns(source.table) :
              /\ split0(c) \o "_FLUX" \in colnames(associations)
              /\ column(associations, split0(c) \o "_FLUX")
                    = <<"flux", <<"file", last_of_prefix(source.table, c, "mjy")>>>>
        /\ \A c \in mjy_err_columns(source.table) :
              /\ split0(c) \o "_FLUX_ERR" \in colnames(associations)
              /\ column(associations, split0(c) \o "_FLUX_ERR")
                    = <<"flux", <<"file", last_of_prefix(source.table, c, "mjy_err")>>>>

C5_Witness ==
    /\ io_call /\ associations # None
    /\ \E c1, c2 \in mjy_columns(source.table) : c1 # c2 /\ split0(c1) = split0(c2)
    /\ mjy_err_columns(source.table) # {}

(***************************************************************************)
(* Properties of the plotting functions.                                   *)
(***************************************************************************)
\* the cells of a figure in a given state
cells(f, state) == {k \in 1..Len(f) : f[k].state = state}

\* C6: for n >= 1 positions with one label each and ncols >= 1, multi_cutout
\* builds a grid of ceil(n/ncols) rows by ncols columns, draws positions[k]
\* with labels[k] in cell k for the first n cells and removes exactly the
\* other nrows*ncols - n cells.
C6_GridDrawnOrRemoved ==
    (call = "multi_cutout" /\ Len(args.positions) >= 1) =>
        /\ pc # "raised"
        /\ pc = "returned" =>
            LET n == Len(args.positions)
                nrows == ceil_div(n, args.ncols)
            IN  /\ Len(fig) = nrows * args.ncols
                /\ \A k \in 1..n :
                     /\ fig[k].state = "drawn"
                     /\ fig[k].position = args.positions[k]
                     /\ fig[k].text = args.labels[k]
                /\ cells(fig, "removed") = (n + 1)..(nrows * args.ncols)

\* the position of every drawn cell of the pages, page after page
RECURSIVE drawn_positions(_)
drawn_positions(pages) ==
    IF pages = <<>> THEN <<>>
    ELSE drawn_positions(SubSeq(pages, 1, Len(pages) - 1))
         \o [k \in 1..Cardinality(cells(pages[Len(pages)], "drawn")) |->
                pages[Len(pages)][k].position]

\* C7: multi_page_cutout runs to completion and writes ceil(N/(nrows*ncols))
\* pages that hold the positions in order, each once, also when N is a
\* multiple of nrows*ncols.  Stated for the calls whose last page is full
\* and whose grid has more than one cell.
C7_WritesEveryPage ==
    (/\ call = "multi_page_cutout"
     /\ locals.Npage > 1
     /\ locals.N % locals.Npage = 0) =>
        /\ pc # "raised"
        /\ pc = "returned" =>
            /\ Len(written.pages) = ceil_div(locals.N, locals.Npage)
            /\ drawn_positions(written.pages) = args.positions

\* line 67 as the claim reads it: x against the columns of the cutout, y
\* against its rows
inside_every_edge(x, y, cutout) ==
    LET u == 2 * cutout.scale
    IN  /\ Margin * u < x /\ x < (cutout.shape[2] - Margin) * u
        /\ Margin * u < y /\ y < (cutout.shape[1] - Margin) * u

\* C8: a point inside the 0.9*size square gets a marker if and only if it
\* lies 5 pixels inside every edge of the cutout, x against the width and y
\* against the height, in square and in edge-truncated cutouts.
C8_MarkerInsideMargin ==
    (call = "single_cutout" /\ pc = "returned" /\ args.points # None) =>
        \A p \in 1..Len(args.points) :
            LET pt == args.points[p]
                cutout == Cutout2D(image, args.position, args.size)
            IN  in_region(pt, args.position, args.size) =>
                    (pt \in Range(result.markers)
                        <=> inside_every_edge(to_pixel(pt, cutout)[1], to_pixel(pt, cutout)[2], cutout))

\* the cells that carry a legend
legend_cells(f) == {k \in 1..Len(f) : f[k].text = "region ID/assoc ID"}

\* C9: the legend panel is made on the final page only and holds one entry
\* for each category among the handles of the first panel, none twice,
\* whatever the number of handles; the other unused cells of the final page
\* are turned off and no cell of an earlier page is altered.
C9_LegendOncePerCategory ==
    call = "multi_page_cutout" =>
        /\ raised # "ValueError"
        /\ \A p \in 1..Len(written.pages) :
             LET page == written.pages[p]
             IN  IF p < locals.Npages
                 THEN cells(page, "drawn") = 1..Len(page) /\ legend_cells(page) = {}
                 ELSE /\ Cardinality(legend_cells(page)) = 1
                      /\ cells(page, "drawn") \cup cells(page, "off") = 1..Len(page)
        /\ \A k \in legend_cells(fig) :
             /\ Range(fig[k].legend) = Range(get_legend_handles_labels(fig[1]))
             /\ Len(fig[k].legend) = Cardinality(Range(fig[k].legend))

\* the lines of a panel that outline label i
outline(ax, i) == {l \in Range(ax.lines) : l.coords.region = i /\ l.color # "tab:red"}

\* the lines that outline label i of a reprojected mask, in one line style
expected_outline(cutout_mask, i, color, ls) == Range(label_lines(cutout_mask, i, color, ls))

\* C10: every label of the nebulae mask reprojected onto the grid of the
\* Halpha cutout is outlined in panel 3, every label of the mask reprojected
\* onto the grid of the F275 cutout is outlined in panel 4, solid for the
\* members of HII_regions['region_ID'] and dashed for the others.
C10_OutlinesPerPanel ==
    (call = "plot_cluster_nebulae" /\ pc = "returned") =>
        LET style(i) == IF i \in args.HII_regions THEN "-" ELSE "--"
            muse == reproject_interp(args.nebulae_mask, Cutout2D(Halpha, args.position, args.size))
            hst == reproject_interp(args.nebulae_mask, Cutout2D(F275, args.position, args.size))
        IN  /\ \A i \in unique(muse) :
                 outline(fig[3], i) = expected_outline(muse, i, "black", style(i))
            /\ \A i \in unique(hst) :
                 outline(fig[4], i) = expected_outline(hst, i, "tab:blue", style(i))

====
